---- MODULE Spec2Model ----
(***************************************************************************)
(* Model of crypto_dashboard.py (DeFi Intelligence Terminal): the memoized *)
(* fetcher, the three schema-safe loaders, the two scorers, the narrative  *)
(* aggregator, the notifier and the page script that runs them on every    *)
(* render.                                                                 *)
(*                                                                         *)
(* Numbers.  Percentages (change_7d, apy) are whole percents, money values *)
(* (total24h, tvlUsd) whole USD, all multiples of 100000 so that           *)
(* total24h / 1e7 is exact in hundredths.  A trend score is kept in        *)
(* hundredths (1220 is 12.20), which is what round(.., 2) keeps.           *)
(* Missing values.  pandas fills a cell whose key is absent from a row     *)
(* with NaN; NaN stands for it in numeric columns and NA in text columns.  *)
(* Every ordering comparison with NaN is false, as in IEEE 754.            *)
(***************************************************************************)
EXTENDS Integers, Sequences, FiniteSets, TLC

VARIABLES
    pc,            \* position of the page script in the current render
    now,           \* wall clock, seconds since process start
    cache,         \* st.cache_data store of fetch: url -> entry
    d,             \* what fetch returned to each loader in this render
    lastReq,       \* url -> time of the latest network request (-1: none)
    prevReq,       \* url -> time of the request before that (-1: none)
    renderReqs,    \* network requests issued in the current render
    env,           \* process environment (partial map name -> string)
    fees_df, dex_df, yield_df, narratives_df,
    err,           \* where an exception escaped the script ("" if none)
    ui,            \* what this render offered and did
    call           \* harness: the latest direct call of a function

vars == <<pc, now, cache, d, lastReq, prevReq, renderReqs, env,
          fees_df, dex_df, yield_df, narratives_df, err, ui, call>>

(***************************************************************************)
(* Bounds of the model.                                                    *)
(***************************************************************************)
MaxTicks == 4
MaxRows == 2

(***************************************************************************)
(* Program constants.                                                      *)
(***************************************************************************)
FEES_API == "https://api.llama.fi/overview/fees?excludeChain=true"
DEXS_API == "https://api.llama.fi/overview/dexs?excludeChain=true"
YIELDS_API == "https://yields.llama.fi/pools"
Urls == {FEES_API, DEXS_API, YIELDS_API}

TTL == 3600

NaN == 0 - 2000000000
NA == "<NA>"
NumericCols == {"total24h", "change_7d", "apy", "tvlUsd", "dailyUsers", "users",
                "activeUsers", "APY (%)", "TVL (USD)", "7D Fee Change (%)",
                "24H Fees (USD)", "Trend Score (0-100)"}
NullOf(c) == IF c \in NumericCols THEN NaN ELSE NA

Lt(a, b) == a # NaN /\ b # NaN /\ a < b
Gt(a, b) == a # NaN /\ b # NaN /\ a > b

\* Python's min(a, b): b if b < a else a
PyMin(a, b) == IF Lt(b, a) THEN b ELSE a

Mul(a, k) == IF a = NaN THEN NaN ELSE a * k
Add(a, b) == IF a = NaN \/ b = NaN THEN NaN ELSE a + b
DivBy(a, k) == IF a = NaN THEN NaN ELSE a \div k

(***************************************************************************)
(* DataFrames: a set of column names and a sequence of rows, each row a    *)
(* function on the columns.                                                *)
(***************************************************************************)
EmptyDataFrame == [columns |-> {}, rows |-> <<>>]

DataFrame(list) ==
    LET cols == UNION {DOMAIN list[i] : i \in 1..Len(list)}
    IN  IF Len(list) = 0 THEN EmptyDataFrame
        ELSE [columns |-> cols,
              rows |-> [i \in 1..Len(list) |->
                         [c \in cols |-> IF c \in DOMAIN list[i]
                                         THEN list[i][c] ELSE NullOf(c)]]]

IsEmpty(df) == Len(df.rows) = 0 \/ df.columns = {}

Select(df, cols) ==
    [columns |-> cols,
     rows |-> [i \in 1..Len(df.rows) |-> [c \in cols |-> df.rows[i][c]]]]

\* row.get(key, default) on a row of a DataFrame
Get(row, key, default) == IF key \in DOMAIN row THEN row[key] ELSE default

\* df.rename(columns = m): m is a function on the columns to rename
Rename(df, m) ==
    LET new(c) == IF c \in DOMAIN m THEN m[c] ELSE c
        old(n) == CHOOSE c \in df.columns : new(c) = n
        cols == {new(c) : c \in df.columns}
    IN  [columns |-> cols,
         rows |-> [i \in 1..Len(df.rows) |-> [n \in cols |-> df.rows[i][old(n)]]]]

\* df[col] = values, one value per row
WithColumn(df, col, values) ==
    [columns |-> df.columns \cup {col},
     rows |-> [i \in 1..Len(df.rows) |->
                [c \in df.columns \cup {col} |->
                    IF c = col THEN values[i] ELSE df.rows[i][c]]]]

\* sort_values(col, ascending = False): descending, NaN last, ties in order
Before(a, b) == (a # NaN /\ b = NaN) \/ Gt(a, b)

RECURSIVE InsertDesc(_, _, _)
InsertDesc(row, sorted, col) ==
    IF sorted = <<>> THEN <<row>>
    ELSE IF Before(row[col], sorted[1][col]) THEN <<row>> \o sorted
         ELSE <<sorted[1]>> \o InsertDesc(row, Tail(sorted), col)

RECURSIVE SortDesc(_, _)
SortDesc(rows, col) ==
    IF rows = <<>> THEN <<>>
    ELSE InsertDesc(rows[Len(rows)], SortDesc(SubSeq(rows, 1, Len(rows) - 1), col), col)

(***************************************************************************)
(* Fetch outcomes.  A decoded JSON object is the set of its keys and the   *)
(* list under its list key; Unavailable is fetch's None.                   *)
(***************************************************************************)
Unavailable == [ok |-> FALSE, keys |-> {}, list |-> <<>>]
Json(key, list) == [ok |-> TRUE, keys |-> {key}, list |-> list]
EmptyJson == [ok |-> TRUE, keys |-> {}, list |-> <<>>]

\* `not d`: None or an empty object
Falsy(p) == ~p.ok \/ p.keys = {}
\* d.get(key, [])
GetList(p, key) == IF key \in p.keys THEN p.list ELSE <<>>

NoEntry == [present |-> FALSE, at |-> 0, value |-> Unavailable]

(***************************************************************************)
(* fetch under @st.cache_data(ttl=3600): the stored result is returned     *)
(* while it is younger than the ttl; otherwise the function body runs (one *)
(* network request, every failure collapsed to None) and its result, None  *)
(* included, is stored under the url with the current time.                *)
(***************************************************************************)
Fresh(entry, t) == entry.present /\ t - entry.at < TTL

fetch_uncached_none(store, t, url, upstream) ==
    IF Fresh(store[url], t)
    THEN [ret |-> store[url].value, cache |-> store, requested |-> FALSE]
    ELSE [ret |-> upstream,
          cache |-> IF upstream.ok
                    THEN [store EXCEPT ![url] =
                            [present |-> TRUE, at |-> t, value |-> upstream]]
                    ELSE store,
          requested |-> TRUE]

fetch(store, t, url, upstream) ==
    IF Fresh(store[url], t)
    THEN [ret |-> store[url].value, cache |-> store, requested |-> FALSE]
    ELSE [ret |-> upstream,
          cache |-> [store EXCEPT ![url] =
                        [present |-> TRUE, at |-> t, value |-> upstream]],
          requested |-> TRUE]

NoColumn == ""

RECURSIVE safe_column(_, _)
safe_column(df, candidates) ==
    IF candidates = <<>> THEN NoColumn
    ELSE IF candidates[1] \in df.columns THEN candidates[1]
         ELSE safe_column(df, Tail(candidates))

(***************************************************************************)
(* Loaders, on what fetch returned.  Each yields [raised, df]: raised is   *)
(* the KeyError of selecting a column the frame does not have.             *)
(***************************************************************************)
Returned(df) == [raised |-> FALSE, df |-> df]
Raised == [raised |-> TRUE, df |-> EmptyDataFrame]

FeesRequired == {"name", "category", "total24h", "change_7d"}

load_fees(p) ==
    IF Falsy(p) THEN Returned(EmptyDataFrame)
    ELSE LET df == DataFrame(GetList(p, "protocols"))
         IN  IF ~(FeesRequired \subseteq df.columns) THEN Returned(EmptyDataFrame)
             ELSE Returned([columns |-> FeesRequired,
                            rows |-> SortDesc(Select(df, FeesRequired).rows,
                                              "change_7d")])

load_dexs(p) ==
    IF Falsy(p) THEN Returned(EmptyDataFrame)
    ELSE LET df == DataFrame(GetList(p, "protocols"))
             user_col == safe_column(df, <<"dailyUsers", "users", "activeUsers">>)
         IN  IF IsEmpty(df) THEN Returned(EmptyDataFrame)
             ELSE IF ~({"name", "category"} \subseteq df.columns) THEN Raised
             ELSE LET out == Select(df, {"name", "category"})
                  IN  IF user_col # NoColumn
                      THEN Returned(WithColumn(out, "users",
                              [i \in 1..Len(df.rows) |-> df.rows[i][user_col]]))
                      ELSE Returned(out)

YieldColumns == {"project", "chain", "category", "apy", "tvlUsd"}

load_yields_unfiltered(p) ==
    IF Falsy(p) THEN Returned(EmptyDataFrame)
    ELSE LET df0 == DataFrame(GetList(p, "data"))
         IN  IF IsEmpty(df0) THEN Returned(EmptyDataFrame)
             ELSE IF ~({"apy", "tvlUsd"} \subseteq df0.columns)
                  THEN Returned(EmptyDataFrame)
             ELSE LET df == IF "category" \notin df0.columns
                            THEN WithColumn(df0, "category",
                                            [i \in 1..Len(df0.rows) |-> "Yield"])
                            ELSE df0
                  IN  IF ~(YieldColumns \subseteq df.columns) THEN Raised
                      ELSE Returned(Select(df, YieldColumns))

load_yields(p) ==
    IF Falsy(p) THEN Returned(EmptyDataFrame)
    ELSE LET df0 == DataFrame(GetList(p, "data"))
         IN  IF IsEmpty(df0) THEN Returned(EmptyDataFrame)
             ELSE IF ~({"apy", "tvlUsd"} \subseteq df0.columns)
                  THEN Returned(EmptyDataFrame)
             ELSE LET df == IF "category" \notin df0.columns
                            THEN WithColumn(df0, "category",
                                            [i \in 1..Len(df0.rows) |-> "Yield"])
                            ELSE df0
                      Above8(r) == Gt(r["apy"], 8)
                      kept == [columns |-> df.columns,
                               rows |-> SelectSeq(df.rows, Above8)]
                  IN  IF ~(YieldColumns \subseteq df.columns) THEN Raised
                      ELSE Returned(Select(kept, YieldColumns))

(***************************************************************************)
(* Scorers.                                                                *)
(***************************************************************************)
\* in hundredths: min(change_7d, 50) * 0.6 + min(total24h / 1e7, 20), capped at 100
compute_trend_score(row) ==
    LET s1 == Add(0, Mul(PyMin(Get(row, "change_7d", 0), 50), 60))
        s2 == Add(s1, PyMin(DivBy(Get(row, "total24h", 0), 100000), 2000))
    IN  PyMin(s2, 10000)

Accumulation == "Accumulation"
Distribution == "Distribution"
RetailFarming == "Retail Farming"
Neutral == "Neutral"

whale_flow_signal_le8(row) ==
    LET tvl == Get(row, "TVL (USD)", 0)
        apy == Get(row, "APY (%)", 0)
    IN  IF Gt(tvl, 500000000) /\ ~Gt(apy, 8) THEN Accumulation
        ELSE IF Gt(tvl, 500000000) /\ Gt(apy, 20) THEN Distribution
        ELSE IF Lt(tvl, 50000000) /\ Gt(apy, 25) THEN RetailFarming
        ELSE Neutral

whale_flow_signal(row) ==
    LET tvl == Get(row, "TVL (USD)", 0)
        apy == Get(row, "APY (%)", 0)
    IN  IF Gt(tvl, 500000000) /\ Lt(apy, 8) THEN Accumulation
        ELSE IF Gt(tvl, 500000000) /\ Gt(apy, 20) THEN Distribution
        ELSE IF Lt(tvl, 50000000) /\ Gt(apy, 25) THEN RetailFarming
        ELSE Neutral

(***************************************************************************)
(* Narrative aggregator.  narratives is the dict of the code, kept as the  *)
(* sequence of its items in insertion order.                               *)
(***************************************************************************)
\* df["category"].dropna().unique(): the non-null values, first occurrences in order
RECURSIVE Unique(_)
Unique(s) ==
    IF s = <<>> THEN <<>>
    ELSE LET front == Unique(SubSeq(s, 1, Len(s) - 1))
             x == s[Len(s)]
         IN  IF \E i \in 1..Len(front) : front[i] = x THEN front
             ELSE Append(front, x)

Categories(df) ==
    LET col == [i \in 1..Len(df.rows) |-> df.rows[i]["category"]]
        NotNull(x) == x # NA
    IN  Unique(SelectSeq(col, NotNull))

\* the slip narratives[cat] = {signal}
SetDefaultAssign(narratives, cat, signal) ==
    IF \E i \in 1..Len(narratives) : narratives[i].cat = cat
    THEN [i \in 1..Len(narratives) |->
            IF narratives[i].cat = cat
            THEN [narratives[i] EXCEPT !.signals = {signal}]
            ELSE narratives[i]]
    ELSE Append(narratives, [cat |-> cat, signals |-> {signal}])

\* narratives.setdefault(cat, set()).add(signal)
SetDefaultAdd(narratives, cat, signal) ==
    IF \E i \in 1..Len(narratives) : narratives[i].cat = cat
    THEN [i \in 1..Len(narratives) |->
            IF narratives[i].cat = cat
            THEN [narratives[i] EXCEPT !.signals = @ \cup {signal}]
            ELSE narratives[i]]
    ELSE Append(narratives, [cat |-> cat, signals |-> {signal}])

RECURSIVE AddAll(_, _, _)
AddAll(narratives, cats, signal) ==
    IF cats = <<>> THEN narratives
    ELSE AddAll(SetDefaultAdd(narratives, cats[1], signal), Tail(cats), signal)

Scan(narratives, df, signal) ==
    IF IsEmpty(df) \/ "category" \notin df.columns THEN narratives
    ELSE AddAll(narratives, Categories(df), signal)

\* ", ".join(sorted(signals)), kept as the sequence that is joined
SortedSignals(signals) ==
    SelectSeq(<<"fees", "liquidity", "users">>, LAMBDA x : x \in signals)

NarrativeRow(item) ==
    LET strength == Cardinality(item.signals)
    IN  ("Narrative" :> item.cat) @@
        ("Signals Active" :> SortedSignals(item.signals)) @@
        ("Strength" :> strength) @@
        ("Status" :> IF strength >= 3 THEN "Accelerating"
                     ELSE IF strength = 2 THEN "Emerging" ELSE "Mature")

NarrativeColumns == {"Narrative", "Signals Active", "Strength", "Status"}

\* [raised, df]: pd.DataFrame([]) has no Strength column to sort by (KeyError)
detect_narratives(f, x, y) ==
    LET narratives == Scan(Scan(Scan(<<>>, f, "fees"), x, "users"), y, "liquidity")
        rows == [i \in 1..Len(narratives) |-> NarrativeRow(narratives[i])]
    IN  IF Len(rows) = 0 THEN Raised
        ELSE Returned([columns |-> NarrativeColumns,
                       rows |-> SortDesc(rows, "Strength")])

(***************************************************************************)
(* Notifier.  The environment is a partial map; int() accepts the numerals *)
(* below and raises ValueError on every other string of the model.         *)
(***************************************************************************)
Getenv(e, k, default) == IF k \in DOMAIN e THEN e[k] ELSE default
Set(e, k) == k \in DOMAIN e /\ e[k] # ""

Numerals == {"587", "465", "25"}

\* [raised, ret, connected]; transport is what smtplib does once asked to connect
send_email(e, transport) ==
    LET portText == Getenv(e, "SMTP_PORT", "587")
    IN  IF portText \notin Numerals
        THEN [raised |-> TRUE, ret |-> FALSE, connected |-> FALSE]
        ELSE IF ~(Set(e, "SMTP_SERVER") /\ Set(e, "SMTP_USER") /\ Set(e, "SMTP_PASSWORD"))
        THEN [raised |-> FALSE, ret |-> FALSE, connected |-> FALSE]
        ELSE IF transport = "ok"
        THEN [raised |-> FALSE, ret |-> TRUE, connected |-> TRUE]
        ELSE [raised |-> TRUE, ret |-> FALSE, connected |-> TRUE]

(***************************************************************************)
(* Inputs: what the three endpoints may answer, and the environments the   *)
(* process may run in.                                                     *)
(***************************************************************************)
Uniswap == [name |-> "Uniswap", category |-> "Dexes",
            total24h |-> 50000000, change_7d |-> 12]
Aave == [name |-> "Aave", category |-> "Lending",
         total24h |-> 0, change_7d |-> 0 - 100]

FeesUpstream ==
    {Unavailable, EmptyJson, Json("error", <<>>), Json("protocols", <<>>),
     Json("protocols", <<Uniswap>>),
     Json("protocols", <<Aave, Uniswap>>),
     Json("protocols", <<[name |-> "Uniswap", category |-> "Dexes",
                          total24h |-> 50000000]>>),
     Json("protocols", <<Uniswap, [name |-> "Curve", total24h |-> 300000000]>>)}

DexsUpstream ==
    {Unavailable, Json("protocols", <<>>),
     Json("protocols", <<[name |-> "Uniswap", category |-> "Dexes"]>>),
     Json("protocols", <<[name |-> "Aave", category |-> "Lending",
                          users |-> 7, activeUsers |-> 9]>>),
     Json("protocols", <<[name |-> "Uniswap", category |-> NA, dailyUsers |-> 5]>>),
     Json("protocols", <<[name |-> "Uniswap"]>>),
     Json("protocols", <<[category |-> "Dexes"]>>)}

YieldsUpstream ==
    {Unavailable, Json("data", <<>>),
     Json("data", <<[project |-> "curve", chain |-> "Ethereum", category |-> "Dexes",
                     apy |-> 30, tvlUsd |-> 10000000]>>),
     Json("data", <<[project |-> "lido", chain |-> "Ethereum",
                     apy |-> 22, tvlUsd |-> 600000000]>>),
     Json("data", <<[project |-> "aave", chain |-> "Ethereum", category |-> "Lending",
                     apy |-> 5, tvlUsd |-> 600000000],
                    [project |-> "maker", chain |-> "Ethereum", category |-> "Lending",
                     apy |-> 9, tvlUsd |-> 600000000]>>),
     Json("data", <<[project |-> "aave", chain |-> "Ethereum", category |-> "Lending",
                     apy |-> 5, tvlUsd |-> 600000000]>>),
     Json("data", <<[chain |-> "Ethereum", category |-> "Dexes",
                     apy |-> 30, tvlUsd |-> 10000000]>>),
     Json("data", <<[project |-> "curve", category |-> "Dexes",
                     apy |-> 30, tvlUsd |-> 10000000]>>),
     Json("data", <<[project |-> "curve", chain |-> "Ethereum", category |-> "Dexes",
                     tvlUsd |-> 10000000]>>)}

EnvKeys == {"SMTP_SERVER", "SMTP_USER", "SMTP_PASSWORD", "SMTP_PORT",
            "STREAMLIT_SERVER_PORT"}
EnvValues(k) ==
    CASE k = "SMTP_SERVER" -> {"", "smtp.example.org"}
      [] k = "SMTP_USER" -> {"", "me@example.org"}
      [] k = "SMTP_PASSWORD" -> {"", "secret"}
      [] k = "SMTP_PORT" -> {"", "587", "465", "abc"}
      [] k = "STREAMLIT_SERVER_PORT" -> {"8501"}
AllEnvValues == UNION {EnvValues(k) : k \in EnvKeys}
Envs == UNION {{e \in [D -> AllEnvValues] : \A k \in D : e[k] \in EnvValues(k)} :
               D \in SUBSET EnvKeys}

Configured == [SMTP_SERVER |-> "smtp.example.org", SMTP_USER |-> "me@example.org",
               SMTP_PASSWORD |-> "secret"]
RenderEnvs == {e \in Envs :
                 \/ DOMAIN e = {}
                 \/ e = Configured
                 \/ e = [STREAMLIT_SERVER_PORT |-> "8501"]
                 \/ e = [SMTP_PORT |-> "abc"]}

(***************************************************************************)
(* The page script: one action per block of the module-level code.         *)
(***************************************************************************)
Tick == TTL \div 3
NoUi == [shown |-> {}, email |-> "none", connected |-> FALSE,
         input |-> FALSE, chat |-> FALSE, banner |-> "none"]
NoCall == [fn |-> "none"]
FreshRender ==
    /\ pc' = "load_fees"
    /\ d' = [u \in Urls |-> Unavailable]
    /\ renderReqs' = 0
    /\ fees_df' = EmptyDataFrame
    /\ dex_df' = EmptyDataFrame
    /\ yield_df' = EmptyDataFrame
    /\ narratives_df' = EmptyDataFrame
    /\ err' = ""
    /\ ui' = NoUi

Init ==
    /\ pc = "load_fees"
    /\ now = 0
    /\ cache = [u \in Urls |-> NoEntry]
    /\ d = [u \in Urls |-> Unavailable]
    /\ lastReq = [u \in Urls |-> 0 - 1]
    /\ prevReq = [u \in Urls |-> 0 - 1]
    /\ renderReqs = 0
    /\ env \in RenderEnvs
    /\ fees_df = EmptyDataFrame
    /\ dex_df = EmptyDataFrame
    /\ yield_df = EmptyDataFrame
    /\ narratives_df = EmptyDataFrame
    /\ err = ""
    /\ ui = NoUi
    /\ call = NoCall

\* the bookkeeping of one call of fetch: f is what fetch yielded for url
Fetched(url, f) ==
    /\ cache' = f.cache
    /\ d' = [d EXCEPT ![url] = f.ret]
    /\ lastReq' = IF f.requested THEN [lastReq EXCEPT ![url] = now] ELSE lastReq
    /\ prevReq' = IF f.requested THEN [prevReq EXCEPT ![url] = lastReq[url]] ELSE prevReq
    /\ renderReqs' = IF f.requested THEN renderReqs + 1 ELSE renderReqs

Crash(where) == pc' = "crashed" /\ err' = where

RunLoadFees ==
    /\ pc = "load_fees"
    /\ \E upstream \in FeesUpstream :
         LET f == fetch(cache, now, FEES_API, upstream)
             r == load_fees(f.ret)
         IN  /\ Fetched(FEES_API, f)
             /\ IF r.raised
                THEN Crash("load_fees") /\ UNCHANGED fees_df
                ELSE pc' = "load_dexs" /\ fees_df' = r.df /\ UNCHANGED err
    /\ UNCHANGED <<now, env, dex_df, yield_df, narratives_df, ui, call>>

RunLoadDexs ==
    /\ pc = "load_dexs"
    /\ \E upstream \in DexsUpstream :
         LET f == fetch(cache, now, DEXS_API, upstream)
             r == load_dexs(f.ret)
         IN  /\ Fetched(DEXS_API, f)
             /\ IF r.raised
                THEN Crash("load_dexs") /\ UNCHANGED dex_df
                ELSE pc' = "load_yields" /\ dex_df' = r.df /\ UNCHANGED err
    /\ UNCHANGED <<now, env, fees_df, yield_df, narratives_df, ui, call>>

RunLoadYields ==
    /\ pc = "load_yields"
    /\ \E upstream \in YieldsUpstream :
         LET f == fetch(cache, now, YIELDS_API, upstream)
             r == load_yields(f.ret)
         IN  /\ Fetched(YIELDS_API, f)
             /\ IF r.raised
                THEN Crash("load_yields") /\ UNCHANGED yield_df
                ELSE pc' = "score_fees" /\ yield_df' = r.df /\ UNCHANGED err
    /\ UNCHANGED <<now, env, fees_df, dex_df, narratives_df, ui, call>>

TrendColumn == "Trend Score (0-100)"

ScoreFees ==
    /\ pc = "score_fees"
    /\ fees_df' =
         IF IsEmpty(fees_df) THEN fees_df
         ELSE Rename(WithColumn(fees_df, TrendColumn,
                        [i \in 1..Len(fees_df.rows) |->
                            compute_trend_score(fees_df.rows[i])]),
                     [change_7d |-> "7D Fee Change (%)", total24h |-> "24H Fees (USD)"])
    /\ pc' = "score_yields"
    /\ UNCHANGED <<now, cache, d, lastReq, prevReq, renderReqs, env,
                   dex_df, yield_df, narratives_df, err, ui, call>>

ScoreYields ==
    /\ pc = "score_yields"
    /\ yield_df' =
         IF IsEmpty(yield_df) THEN yield_df
         ELSE LET renamed == Rename(yield_df,
                    [project |-> "Protocol", apy |-> "APY (%)", tvlUsd |-> "TVL (USD)"])
              IN  WithColumn(renamed, "Whale Signal",
                     [i \in 1..Len(renamed.rows) |-> whale_flow_signal(renamed.rows[i])])
    /\ pc' = "narratives"
    /\ UNCHANGED <<now, cache, d, lastReq, prevReq, renderReqs, env,
                   fees_df, dex_df, narratives_df, err, ui, call>>

DetectNarratives ==
    /\ pc = "narratives"
    /\ LET r == detect_narratives(fees_df, dex_df, yield_df)
       IN  IF r.raised
           THEN Crash("detect_narratives") /\ UNCHANGED narratives_df
           ELSE pc' = "button" /\ narratives_df' = r.df /\ UNCHANGED err
    /\ UNCHANGED <<now, cache, d, lastReq, prevReq, renderReqs, env,
                   fees_df, dex_df, yield_df, ui, call>>

\* the "Send Daily Brief" button: the user may or may not have clicked it
Button ==
    /\ pc = "button"
    /\ \E clicked \in BOOLEAN, transport \in {"ok", "fails"} :
         IF clicked /\ ~IsEmpty(fees_df)
         THEN LET r == send_email(env, transport)
              IN  /\ ui' = [ui EXCEPT !.connected = r.connected,
                                      !.email = IF r.raised THEN "none"
                                                ELSE IF r.ret THEN "sent"
                                                ELSE "not_configured"]
                  /\ IF r.raised THEN Crash("send_email")
                     ELSE pc' = "layout" /\ UNCHANGED err
         ELSE pc' = "layout" /\ UNCHANGED <<err, ui>>
    /\ UNCHANGED <<now, cache, d, lastReq, prevReq, renderReqs, env,
                   fees_df, dex_df, yield_df, narratives_df, call>>

LeaderColumns == {"name", "category", "7D Fee Change (%)", TrendColumn}

\* the two columns: the fee leader table (selected unconditionally) and the chart
Layout ==
    /\ pc = "layout"
    /\ IF ~(LeaderColumns \subseteq fees_df.columns)
       THEN Crash("layout") /\ UNCHANGED ui
       ELSE /\ ui' = [ui EXCEPT !.shown = @ \cup {"fee_leaders"} \cup
                         (IF IsEmpty(fees_df) THEN {} ELSE {"fee_chart"})]
            /\ pc' = "panels"
            /\ UNCHANGED err
    /\ UNCHANGED <<now, cache, d, lastReq, prevReq, renderReqs, env,
                   fees_df, dex_df, yield_df, narratives_df, call>>

Panels ==
    /\ pc = "panels"
    /\ ui' = [ui EXCEPT !.shown = @ \cup
                 (IF IsEmpty(narratives_df) THEN {} ELSE {"narratives"}) \cup
                 (IF IsEmpty(yield_df) THEN {} ELSE {"yields"})]
    /\ pc' = "chat"
    /\ UNCHANGED <<now, cache, d, lastReq, prevReq, renderReqs, env,
                   fees_df, dex_df, yield_df, narratives_df, err, call>>

IS_CLOUD == "STREAMLIT_SERVER_PORT" \in DOMAIN env

\* the assistant block: the text input, and the chat call when a question was typed
Chat ==
    /\ pc = "chat"
    /\ \E query \in {"", "what leads?"}, ollama \in {"not installed", "down", "up"} :
         ui' = [ui EXCEPT !.banner = IF ~IS_CLOUD THEN "Local LLM Analyst"
                                     ELSE "Local LLM disabled",
                          !.input = TRUE,
                          !.chat = query # "" /\ ollama # "not installed",
                          !.shown = @ \cup (IF query # "" /\ ollama = "up"
                                            THEN {"answer"} ELSE {})]
    /\ pc' = "done"
    /\ UNCHANGED <<now, cache, d, lastReq, prevReq, renderReqs, env,
                   fees_df, dex_df, yield_df, narratives_df, err, call>>

\* the next render of the page, some time later, in the same process
Rerun ==
    /\ pc \in {"done", "crashed"}
    /\ \E k \in 0..MaxTicks :
         /\ now + k * Tick <= MaxTicks * Tick
         /\ now' = now + k * Tick
    /\ FreshRender
    /\ UNCHANGED <<cache, lastReq, prevReq, env, call>>

Next ==
    \/ RunLoadFees
    \/ RunLoadDexs
    \/ RunLoadYields
    \/ ScoreFees
    \/ ScoreYields
    \/ DetectNarratives
    \/ Button
    \/ Layout
    \/ Panels
    \/ Chat
    \/ Rerun

Spec == Init /\ [][Next]_vars

(***************************************************************************)
(* Direct calls of the pure functions, on inputs wider than one page       *)
(* render produces: each behaviour is one call.                            *)
(***************************************************************************)
ChangeValues == {0 - 100, 0 - 1, 0, 12, 50, 60, 200}
TotalValues == {0, 50000000, 200000000, 300000000}
TrendValues(k) == IF k = "change_7d" THEN ChangeValues ELSE TotalValues
TrendRows ==
    UNION {{r \in [D -> ChangeValues \cup TotalValues] :
                \A k \in D : r[k] \in TrendValues(k)} :
           D \in SUBSET {"change_7d", "total24h"}}

TvlValues == {0, 10000000, 50000000, 100000000, 500000000, 600000000}
ApyValues == {0, 5, 8, 9, 20, 22, 25, 30}
WhaleValues(k) == IF k = "TVL (USD)" THEN TvlValues ELSE ApyValues
WhaleRows ==
    UNION {{r \in [D -> TvlValues \cup ApyValues] :
                \A k \in D : r[k] \in WhaleValues(k)} :
           D \in SUBSET {"TVL (USD)", "APY (%)"}}

CategoryValues == {"Dexes", "Lending", NA}
Frames ==
    {EmptyDataFrame,
     [columns |-> {"name"}, rows |-> <<[name |-> "Uniswap"]>>],
     [columns |-> {"name", "category"}, rows |-> <<>>]} \cup
    {[columns |-> {"name", "category"},
      rows |-> [i \in 1..Len(cs) |-> [name |-> "Uniswap", category |-> cs[i]]]] :
        cs \in UNION {[1..n -> CategoryValues] : n \in 1..MaxRows}}

InitFn ==
    /\ Init
    /\ DOMAIN env = {}

CallTrendScore ==
    /\ call.fn = "none"
    /\ \E row \in TrendRows :
         call' = [fn |-> "compute_trend_score", row |-> row,
                  ret |-> compute_trend_score(row)]
    /\ UNCHANGED <<pc, now, cache, d, lastReq, prevReq, renderReqs, env,
                   fees_df, dex_df, yield_df, narratives_df, err, ui>>

CallWhaleSignal ==
    /\ call.fn = "none"
    /\ \E row \in WhaleRows :
         call' = [fn |-> "whale_flow_signal", row |-> row,
                  ret |-> whale_flow_signal(row)]
    /\ UNCHANGED <<pc, now, cache, d, lastReq, prevReq, renderReqs, env,
                   fees_df, dex_df, yield_df, narratives_df, err, ui>>

CallDetectNarratives ==
    /\ call.fn = "none"
    /\ \E f \in Frames, x \in Frames, y \in Frames :
         call' = [fn |-> "detect_narratives", fees |-> f, dex |-> x, yields |-> y,
                  ret |-> detect_narratives(f, x, y)]
    /\ UNCHANGED <<pc, now, cache, d, lastReq, prevReq, renderReqs, env,
                   fees_df, dex_df, yield_df, narratives_df, err, ui>>

CallSendEmail ==
    /\ call.fn = "none"
    /\ \E e \in Envs, transport \in {"ok", "fails"} :
         call' = [fn |-> "send_email", env |-> e, transport |-> transport,
                  ret |-> send_email(e, transport)]
    /\ UNCHANGED <<pc, now, cache, d, lastReq, prevReq, renderReqs, env,
                   fees_df, dex_df, yield_df, narratives_df, err, ui>>

NextFn ==
    \/ CallTrendScore
    \/ CallWhaleSignal
    \/ CallDetectNarratives
    \/ CallSendEmail

SpecFn == InitFn /\ [][NextFn]_vars

(***************************************************************************)
(* Properties.                                                             *)
(***************************************************************************)
\* a dataset mentions cat: it is non-empty, has a category column, and cat is
\* one of that column's non-null values
Mentions(df, cat) ==
    /\ ~IsEmpty(df)
    /\ "category" \in df.columns
    /\ cat # NA
    /\ \E i \in 1..Len(df.rows) : df.rows[i]["category"] = cat

SourcesOf(f, x, y, cat) ==
    {src \in {"fees", "dex", "yields"} :
        \/ src = "fees" /\ Mentions(f, cat)
        \/ src = "dex" /\ Mentions(x, cat)
        \/ src = "yields" /\ Mentions(y, cat)}

DetectCalled == call.fn = "detect_narratives"

\* C1: detect_narratives emits at most one row per category, and each row's
\* Strength is the number of datasets among (fees, dex, yields) that are
\* non-empty, have a category column and hold that category as a non-null
\* value; so Strength is in 1..3.
C1_StrengthIsSourceCount ==
    DetectCalled /\ ~call.ret.raised =>
        LET out == call.ret.df.rows
        IN  /\ \A i, j \in 1..Len(out) :
                 out[i]["Narrative"] = out[j]["Narrative"] => i = j
            /\ \A i \in 1..Len(out) :
                 /\ out[i]["Strength"] =
                      Cardinality(SourcesOf(call.fees, call.dex, call.yields,
                                            out[i]["Narrative"]))
                 /\ out[i]["Strength"] \in 1..3

\* a call whose fees dataset repeats a category that all three datasets mention
C1_Witness ==
    /\ DetectCalled
    /\ ~call.ret.raised
    /\ Len(call.fees.rows) >= 2
    /\ call.fees.rows[1]["category"] = call.fees.rows[2]["category"]
    /\ \E i \in 1..Len(call.ret.df.rows) :
         /\ call.ret.df.rows[i]["Strength"] = 3
         /\ call.ret.df.rows[i]["Narrative"] = call.fees.rows[1]["category"]

NoCategoryObserved(f, x, y) ==
    \A cat \in CategoryValues : SourcesOf(f, x, y, cat) = {}

\* C2: when no category is observed in any of the three inputs,
\* detect_narratives returns an empty output and does not fail.
C2_EmptyOutputNoFailure ==
    DetectCalled /\ NoCategoryObserved(call.fees, call.dex, call.yields) =>
        ~call.ret.raised /\ Len(call.ret.df.rows) = 0

\* C3: compute_trend_score returns a value in [0, 100] for every row
\* (hundredths: 0..10000), negative 7-day changes and missing fields included.
C3_TrendScoreInRange ==
    call.fn = "compute_trend_score" => call.ret >= 0 /\ call.ret <= 10000

\* no row of the payload's list has the column
Lacks(p, key, col) ==
    \A i \in 1..Len(GetList(p, key)) : col \notin DOMAIN GetList(p, key)[i]

Loaded(url) ==
    CASE url = FEES_API -> pc \in {"load_dexs", "load_yields", "score_fees"}
      [] url = DEXS_API -> pc \in {"load_yields", "score_fees"}
      [] url = YIELDS_API -> pc \in {"score_fees"}

\* C4: for every fetch outcome (Unavailable, list field absent or empty, rows
\* lacking a column the loader returns) each loader returns zero rows and never
\* raises, and a non-empty result carries all of the loader's columns.
C4_LoadersSchemaSafe ==
    /\ err \notin {"load_fees", "load_dexs", "load_yields"}
    /\ Loaded(FEES_API) =>
         /\ (\E c \in FeesRequired : Lacks(d[FEES_API], "protocols", c))
               \/ GetList(d[FEES_API], "protocols") = <<>>
               => Len(fees_df.rows) = 0
         /\ ~IsEmpty(fees_df) => FeesRequired \subseteq fees_df.columns
    /\ Loaded(DEXS_API) =>
         /\ (\E c \in {"name", "category"} : Lacks(d[DEXS_API], "protocols", c))
               \/ GetList(d[DEXS_API], "protocols") = <<>>
               => Len(dex_df.rows) = 0
         /\ ~IsEmpty(dex_df) => {"name", "category"} \subseteq dex_df.columns
    /\ Loaded(YIELDS_API) =>
         /\ (\E c \in YieldColumns \ {"category"} : Lacks(d[YIELDS_API], "data", c))
               \/ GetList(d[YIELDS_API], "data") = <<>>
               => Len(yield_df.rows) = 0
         /\ ~IsEmpty(yield_df) => YieldColumns \subseteq yield_df.columns

\* C5: for every combination of fetch outcomes a page render runs to completion:
\* no exception escapes the load, scoring, aggregation or layout steps.
C5_RenderCompletes ==
    err \notin {"load_fees", "load_dexs", "load_yields", "detect_narratives", "layout"}

\* C6: send_email returns false, opens no connection and does not raise whenever
\* any of host, user or password is absent, whatever the port variable holds.
C6_MissingConfigReturnsFalse ==
    call.fn = "send_email" /\
    (\E k \in {"SMTP_SERVER", "SMTP_USER", "SMTP_PASSWORD"} : k \notin DOMAIN call.env)
        => ~call.ret.raised /\ ~call.ret.ret /\ ~call.ret.connected

\* C7: in hosted execution the assistant is disabled: no question input is
\* offered and no chat-completion call is made in that render.
C7_AssistantDisabledWhenHosted ==
    IS_CLOUD => ~ui.input /\ ~ui.chat

LoadStep(url) ==
    CASE url = FEES_API -> pc = "load_fees" /\ pc' # "load_fees"
      [] url = DEXS_API -> pc = "load_dexs" /\ pc' # "load_dexs"
      [] url = YIELDS_API -> pc = "load_yields" /\ pc' # "load_yields"

\* C8: a network request for a url is issued only when no memoized result for
\* it younger than one hour exists; a fresh entry is never dropped or replaced
\* and is what the loader sees, an Unavailable outcome included; so a render
\* issues at most three requests and two requests for one url are at least one
\* hour apart.
C8_RequestOnlyWhenStale ==
    /\ [](/\ renderReqs <= 3
          /\ \A u \in Urls : prevReq[u] >= 0 => lastReq[u] - prevReq[u] >= TTL)
    /\ [][\A u \in Urls :
            /\ LoadStep(u) /\ Fresh(cache[u], now) =>
                 /\ renderReqs' = renderReqs
                 /\ d'[u] = cache[u].value
            /\ LoadStep(u) /\ ~Fresh(cache[u], now) =>
                 /\ renderReqs' = renderReqs + 1
                 /\ cache'[u] = [present |-> TRUE, at |-> now, value |-> d'[u]]
            /\ Fresh(cache[u], now') => cache'[u] = cache[u]]_vars

\* a render served wholly from the cache, its fees entry a memoized Unavailable
\* that an earlier render requested anew after the first entry had expired
C8_Witness ==
    /\ pc = "score_fees"
    /\ renderReqs = 0
    /\ ~d[FEES_API].ok
    /\ prevReq[FEES_API] >= 0
    /\ now > cache[FEES_API].at

\* C9: whale_flow_signal returns exactly one of the four labels, by the first
\* matching rule: TVL > 500,000,000 and APY < 8; TVL > 500,000,000 and APY > 20;
\* TVL < 50,000,000 and APY > 25; otherwise Neutral (a missing TVL or APY is 0).
C9_WhaleSignalPriorityChain ==
    call.fn = "whale_flow_signal" =>
        LET tvl == IF "TVL (USD)" \in DOMAIN call.row THEN call.row["TVL (USD)"] ELSE 0
            apy == IF "APY (%)" \in DOMAIN call.row THEN call.row["APY (%)"] ELSE 0
            r1 == tvl > 500000000 /\ apy < 8
            r2 == tvl > 500000000 /\ apy > 20
            r3 == tvl < 50000000 /\ apy > 25
        IN  /\ call.ret \in {Accumulation, Distribution, RetailFarming, Neutral}
            /\ r1 => call.ret = Accumulation
            /\ ~r1 /\ r2 => call.ret = Distribution
            /\ ~r1 /\ ~r2 /\ r3 => call.ret = RetailFarming
            /\ ~r1 /\ ~r2 /\ ~r3 => call.ret = Neutral
            /\ DOMAIN call.row = {} => call.ret = Neutral

\* a call on a large pool of low yield, which the first rule labels
C9_Witness ==
    /\ call.fn = "whale_flow_signal"
    /\ DOMAIN call.row = {"TVL (USD)", "APY (%)"}
    /\ call.row["TVL (USD)"] > 500000000
    /\ call.row["APY (%)"] < 8
    /\ call.ret = Accumulation

YieldsScored == pc \in {"narratives", "button", "layout", "panels", "chat", "done"}
ApyOf(row) == IF "apy" \in DOMAIN row THEN row["apy"] ELSE row["APY (%)"]

\* C10: in the render pipeline every row load_yields returns has APY > 8, so no
\* row of the displayed yield dataset carries the Accumulation signal.
C10_AccumulationUnreachable ==
    \A i \in 1..Len(yield_df.rows) :
        /\ ApyOf(yield_df.rows[i]) > 8
        /\ "Whale Signal" \in yield_df.columns =>
              yield_df.rows[i]["Whale Signal"] # Accumulation

\* a scored yield table whose upstream list held a large pool under 8% APY
C10_Witness ==
    /\ YieldsScored
    /\ \E i \in 1..Len(yield_df.rows) : yield_df.rows[i]["TVL (USD)"] > 500000000
    /\ \E i \in 1..Len(d[YIELDS_API].list) :
         /\ {"apy", "tvlUsd"} \subseteq DOMAIN d[YIELDS_API].list[i]
         /\ d[YIELDS_API].list[i]["apy"] < 8
         /\ d[YIELDS_API].list[i]["tvlUsd"] > 500000000

====
